---------------------------- MODULE Spec2Model ----------------------------
(***************************************************************************)
(* A model of pb-alloc.c, the pointer-bumping heap allocator.              *)
(*                                                                         *)
(* The machine is scaled down so that the arithmetic of the C code can be  *)
(* enumerated: size_t is an unsigned word of WordBits bits, intptr_t the   *)
(* signed word of the same width, and the heap region is HEAP_SIZE bytes   *)
(* (2 GiB in the source).  Every conversion between size_t and intptr_t,   *)
(* and every size_t addition, wraps modulo 2^WordBits as on the real       *)
(* machine.  DBL_WORD_SIZE and sizeof(header_s) keep the source's values.  *)
(*                                                                         *)
(* Memory is a byte array over the user half of the address space          *)
(* (0 .. INTPTR_MAX); the upper half (negative as intptr_t) is never       *)
(* mapped, so touching it always raises SIGSEGV.  An access outside the    *)
(* mmap()ed region but inside the user half is undefined behaviour: it     *)
(* either raises SIGSEGV or hits some other mapping of the process.        *)
(***************************************************************************)
EXTENDS Integers, Sequences, FiniteSets, TLC

\* ------------------------------------------------------------------ bounds
\* Width in bits of size_t / intptr_t on the modelled machine.
WordBits == 8

\* Bytes of address space reserved for the heap (GB(2) in the source).
HEAP_SIZE == 64

\* Most steps of the program in one run: calls of malloc, free, calloc and
\* realloc, and stores into the blocks it was given.
MaxSteps == 3

\* ------------------------------------------------------- program constants
DBL_WORD_SIZE == 16

\* sizeof(header_s): one size_t field.
sizeof_header_s == 8

NULL == 0

\* mmap()'s failure result, (void*) -1.
MAP_FAILED == -1

\* ------------------------------------------------------------ machine words
SizeMod == 2 ^ WordBits

SIZE_MAX == SizeMod - 1

INTPTR_MAX == (2 ^ (WordBits - 1)) - 1

\* Conversion of a mathematical integer to size_t.
ToSizeT(i) == i % SizeMod

\* Conversion of a size_t value to intptr_t (two's complement).
ToIntPtr(u) == IF u > INTPTR_MAX THEN u - SizeMod ELSE u

\* The % operator of C on a signed left operand: truncates towards zero.
CRem(a, b) == IF a >= 0 THEN a % b ELSE 0 - ((0 - a) % b)

\* The n addresses starting at a (pointer arithmetic wraps).
Range(a, n) == {ToSizeT(a + i) : i \in 0 .. (n - 1)}

\* ------------------------------------------------------------------- state
VARIABLES
    start_addr,   \* static intptr_t start_addr
    end_addr,     \* static intptr_t end_addr
    free_addr,    \* static intptr_t free_addr
    mem,          \* the nonzero bytes of the user half of the address space
    alive,        \* FALSE once the process has exited or been killed
    returned,     \* history: every block malloc has handed out, in order
    last,         \* history: the most recent call (the n-th), its arguments
                  \* and its result; done is FALSE if it never returned
    nsteps,       \* number of steps the program has taken
    threads       \* two threads inside malloc(): where each one is and the
                  \* locals it holds

vars == <<start_addr, end_addr, free_addr, mem, alive, returned, last,
          nsteps, threads>>

\* The allocator's globals and the memory, as one value.
Globals == [start_addr |-> start_addr, end_addr |-> end_addr,
            free_addr |-> free_addr, mem |-> mem]

Addrs == 0 .. INTPTR_MAX

InRegion(g, a) == (g.start_addr <= a) /\ (a < g.end_addr)

\* Addresses of as that lie outside the mmap()ed region.
Outside(g, as) == {a \in as : ~InRegion(g, a)}


\* ------------------------------------------------------------ memory access
\* mem holds the bytes of the user half of the address space that are not
\* zero: anonymous mappings read as zero until they are written, so a byte
\* outside DOMAIN mem is zero.
Peek(m, a) == IF a \in DOMAIN m THEN m[a] ELSE 0

\* A store of one byte; a store to the upper half leaves no trace (the
\* access faults).
Poke(m, a, v) ==
    IF a \notin Addrs THEN m
    ELSE IF v = 0 THEN [x \in (DOMAIN m) \ {a} |-> m[x]]
    ELSE [x \in (DOMAIN m) \cup {a} |-> IF x = a THEN v ELSE m[x]]

\* The n bytes at d are replaced: byte i becomes val[i].
Fill(m, d, n, val) ==
    LET keep == {x \in DOMAIN m : ToSizeT(x - d) >= n}
        set  == {x \in Range(d, n) \cap Addrs : val[ToSizeT(x - d)] # 0}
    IN  [x \in keep \cup set |->
            IF x \in set THEN val[ToSizeT(x - d)] ELSE m[x]]

\* Byte i of a size_t value stored little-endian in sizeof(header_s) bytes.
\* A word of the modelled machine never needs more than the two low bytes.
ByteOf(v, i) == IF i = 0 THEN v % 256
                ELSE IF i = 1 THEN (v \div 256) % 256
                ELSE 0

\* header_ptr->size = v, with header_ptr = a.
StoreHeader(m, a, v) ==
    Fill(m, a, sizeof_header_s,
         [i \in 0 .. (sizeof_header_s - 1) |-> ByteOf(v, i)])

\* old_header->size, with old_header = a.
LoadHeader(m, a) ==
    ToSizeT(Peek(m, ToSizeT(a)) + (256 * Peek(m, ToSizeT(a + 1))))

\* memset(p, 0, n)
memset0(m, p, n) ==
    Fill(m, p, n, [i \in 0 .. (n - 1) |-> 0])

\* memcpy(d, s, n) when every byte is read before any is written; this is
\* what memcpy does whenever the two ranges do not overlap.
CopySnap(m, d, s, n) ==
    Fill(m, d, n, [i \in 0 .. (n - 1) |-> Peek(m, ToSizeT(s + i))])

\* memcpy(d, s, n) copying one byte at a time from the lowest address up:
\* byte i of the destination receives what the source byte holds when it is
\* read, which is an earlier destination byte when d lies k < n bytes above s.
CopyUp(m, d, s, n) ==
    LET k == ToSizeT(d - s)
    IN  Fill(m, d, n,
             [i \in 0 .. (n - 1) |->
                 Peek(m, ToSizeT(s + (IF k = 0 THEN i ELSE i % k)))])

\* memcpy(d, s, n) copying one byte at a time from the highest address
\* down: the source byte has been overwritten already when s lies k < n
\* bytes above d.
CopyDown(m, d, s, n) ==
    LET k == ToSizeT(s - d)
    IN  Fill(m, d, n,
             [i \in 0 .. (n - 1) |->
                 Peek(m, ToSizeT(s + (IF k = 0 THEN i
                                      ELSE i + (((n - 1 - i) \div k) * k))))])

\* memcpy(d, s, n).  Overlapping ranges are undefined behaviour and the
\* result depends on the order in which the library moves the bytes;
\* without overlap every order gives the same result.
memcpy(m, d, s, n, order) ==
    IF order = "up" THEN CopyUp(m, d, s, n)
    ELSE IF order = "down" THEN CopyDown(m, d, s, n)
    ELSE CopySnap(m, d, s, n)

\* --------------------------------------------------------------- init()
\* heap is the result of mmap().  exit is TRUE when ERROR() ends the process.
\* (Variant: the test for a first use is missing, the region is set up anew
\* on every call.)
init_always(g, heap) ==
    IF heap = MAP_FAILED
    THEN [g |-> g, exit |-> TRUE]
    ELSE [g |-> [g EXCEPT !.start_addr = heap,
                          !.end_addr   = heap + HEAP_SIZE,
                          !.free_addr  = heap],
          exit |-> FALSE]

init(g, heap) ==
    IF g.start_addr = 0
    THEN IF heap = MAP_FAILED
         THEN [g |-> g, exit |-> TRUE]
         ELSE [g |-> [g EXCEPT !.start_addr = heap,
                               !.end_addr   = heap + HEAP_SIZE,
                               !.free_addr  = heap],
               exit |-> FALSE]
    ELSE [g |-> g, exit |-> FALSE]

\* -------------------------------------------------------------- malloc()
\* intptr_t padding = (sizeof(header_s) + DBL_WORD_SIZE
\*                     - (free_addr % DBL_WORD_SIZE)) % DBL_WORD_SIZE;
\* The subtraction is done in size_t, after converting the signed remainder.
\* (Variant: the padding brings the cursor itself, not the payload, to a
\* double-word boundary.)
padding_cursor(fa) ==
    ToSizeT(DBL_WORD_SIZE - ToSizeT(CRem(fa, DBL_WORD_SIZE))) % DBL_WORD_SIZE

padding(fa) ==
    ToSizeT((sizeof_header_s + DBL_WORD_SIZE)
            - ToSizeT(CRem(fa, DBL_WORD_SIZE))) % DBL_WORD_SIZE

\* size_t total_size = size + sizeof(header_s);
total_size(size) == ToSizeT(size + sizeof_header_s)

\* intptr_t new_free_addr = free_addr + total_size;  (added as size_t, then
\* converted back to intptr_t)
new_free_addr(fa, size) == ToIntPtr(ToSizeT(ToSizeT(fa) + total_size(size)))

\* Have we exceeded the maximum size of the heap?
exceeded(g, nfa) == nfa > g.end_addr

\* The result of a call: the new globals and memory (g), the returned
\* pointer (ret), the blocks malloc handed out during the call (blk), the
\* addresses touched outside the region (out), whether a memcpy was given
\* overlapping ranges (overlap), and whether the process exited through
\* ERROR() (exit).
Result(g, ret, blk, out) ==
    [g |-> g, ret |-> ret, blk |-> blk, out |-> out, overlap |-> FALSE,
     exit |-> FALSE]

Exited(g) ==
    [g |-> g, ret |-> NULL, blk |-> <<>>, out |-> {}, overlap |-> FALSE,
     exit |-> TRUE]

\* (Variant: a request of zero bytes is served like any other.)
malloc_zero(g0, size, heap) ==
    LET i   == init(g0, heap)
        fa  == i.g.free_addr + padding(i.g.free_addr)
        g   == [i.g EXCEPT !.free_addr = fa]
        header_ptr == ToSizeT(fa)
        block_ptr  == ToSizeT(fa + sizeof_header_s)
        nfa == new_free_addr(fa, size)
    IN  IF i.exit THEN Exited(g0)
        ELSE IF exceeded(g, nfa) THEN Result(g, NULL, <<>>, {})
        ELSE Result([g EXCEPT !.free_addr = nfa,
                              !.mem = StoreHeader(g.mem, header_ptr, size)],
                    block_ptr,
                    <<[ptr |-> block_ptr, size |-> size]>>,
                    Outside(g, Range(header_ptr, sizeof_header_s)))

\* (Variant: the header is written before the heap bound is tested.)
malloc_eager(g0, size, heap) ==
    LET i   == init(g0, heap)
        fa  == i.g.free_addr + padding(i.g.free_addr)
        g   == [i.g EXCEPT !.free_addr = fa]
        header_ptr == ToSizeT(fa)
        block_ptr  == ToSizeT(fa + sizeof_header_s)
        nfa == new_free_addr(fa, size)
        w   == [g EXCEPT !.mem = StoreHeader(g.mem, header_ptr, size)]
    IN  IF i.exit THEN Exited(g0)
        ELSE IF size = 0 THEN Result(g, NULL, <<>>, {})
        ELSE IF exceeded(g, nfa)
             THEN Result(w, NULL, <<>>,
                         Outside(g, Range(header_ptr, sizeof_header_s)))
        ELSE Result([w EXCEPT !.free_addr = nfa],
                    block_ptr,
                    <<[ptr |-> block_ptr, size |-> size]>>,
                    Outside(g, Range(header_ptr, sizeof_header_s)))

\* malloc(size); heap is what mmap() returns if init() has to call it.
malloc(g0, size, heap) ==
    LET i   == init(g0, heap)
        fa  == i.g.free_addr + padding(i.g.free_addr)
        g   == [i.g EXCEPT !.free_addr = fa]
        header_ptr == ToSizeT(fa)
        block_ptr  == ToSizeT(fa + sizeof_header_s)
        nfa == new_free_addr(fa, size)
    IN  IF i.exit THEN Exited(g0)
        ELSE IF size = 0 THEN Result(g, NULL, <<>>, {})
        ELSE IF exceeded(g, nfa) THEN Result(g, NULL, <<>>, {})
        ELSE Result([g EXCEPT !.free_addr = nfa,
                              !.mem = StoreHeader(g.mem, header_ptr, size)],
                    block_ptr,
                    <<[ptr |-> block_ptr, size |-> size]>>,
                    Outside(g, Range(header_ptr, sizeof_header_s)))

\* ---------------------------------------------------------------- free()
free(g, ptr) == g

\* -------------------------------------------------------------- calloc()
\* (Variant: the block is returned as malloc left it.)
calloc_nozero(g0, nmemb, size, heap) ==
    malloc(g0, ToSizeT(nmemb * size), heap)

calloc(g0, nmemb, size, heap) ==
    LET block_size == ToSizeT(nmemb * size)
        r == malloc(g0, block_size, heap)
    IN  IF r.ret # NULL
        THEN Result([r.g EXCEPT !.mem = memset0(r.g.mem, r.ret, block_size)],
                    r.ret, r.blk,
                    r.out \cup Outside(r.g, Range(r.ret, block_size)))
        ELSE r

\* ------------------------------------------------------------- realloc()
\* The outcome of the copy in realloc(): r is the result of malloc(size),
\* old_size the size read from the old header, hdr_out the addresses
\* outside the region that this read touched, order the order in which
\* memcpy moves its bytes.
Moved(r, ptr, old_size, hdr_out, order) ==
    [Result(free([r.g EXCEPT !.mem =
                     memcpy(r.g.mem, r.ret, ptr, old_size, order)],
                 ptr),
            r.ret, r.blk,
            hdr_out \cup r.out
                \cup Outside(r.g, Range(r.ret, old_size))
                \cup Outside(r.g, Range(ptr, old_size)))
     EXCEPT !.overlap = Range(r.ret, old_size) \cap Range(ptr, old_size) # {}]

\* (Variant: the new block is returned without the old contents.)
grow_nocopy(g0, ptr, size, old_size, hdr_out, heap, order) ==
    LET r == malloc(g0, size, heap)
    IN  [r EXCEPT !.out = hdr_out \cup r.out]

\* (Variant: when the allocation fails the old pointer is returned.)
grow_keep(g0, ptr, size, old_size, hdr_out, heap, order) ==
    LET r == malloc(g0, size, heap)
    IN  IF r.ret # NULL
        THEN Moved(r, ptr, old_size, hdr_out, order)
        ELSE [r EXCEPT !.ret = ptr, !.out = hdr_out \cup r.out]

\* realloc() when size > old_size: allocate, copy, free, return.
grow(g0, ptr, size, old_size, hdr_out, heap, order) ==
    LET r == malloc(g0, size, heap)
    IN  IF r.ret # NULL
        THEN Moved(r, ptr, old_size, hdr_out, order)
        ELSE [r EXCEPT !.out = hdr_out \cup r.out]

\* (Variant: a block is kept only when the new size is strictly smaller.)
realloc_strict(g0, ptr, size, heap, order) ==
    IF ptr = NULL THEN malloc(g0, size, heap)
    ELSE IF size = 0 THEN Result(free(g0, ptr), NULL, <<>>, {})
    ELSE
    LET old_header == ToSizeT(ptr - sizeof_header_s)
        old_size   == LoadHeader(g0.mem, old_header)
        hdr_out    == Outside(g0, Range(old_header, sizeof_header_s))
    IN  IF size < old_size
        THEN Result(g0, ptr, <<>>, hdr_out)
        ELSE grow(g0, ptr, size, old_size, hdr_out, heap, order)

\* (Variant: a block that is kept has its header set to the new size.)
realloc_shrink(g0, ptr, size, heap, order) ==
    IF ptr = NULL THEN malloc(g0, size, heap)
    ELSE IF size = 0 THEN Result(free(g0, ptr), NULL, <<>>, {})
    ELSE
    LET old_header == ToSizeT(ptr - sizeof_header_s)
        old_size   == LoadHeader(g0.mem, old_header)
        hdr_out    == Outside(g0, Range(old_header, sizeof_header_s))
    IN  IF size <= old_size
        THEN Result([g0 EXCEPT !.mem = StoreHeader(g0.mem, old_header, size)],
                    ptr, <<>>, hdr_out)
        ELSE grow(g0, ptr, size, old_size, hdr_out, heap, order)

\* (Variant: a null pointer is handed back without allocating.)
realloc_null(g0, ptr, size, heap, order) ==
    IF ptr = NULL THEN Result(g0, NULL, <<>>, {})
    ELSE IF size = 0 THEN Result(free(g0, ptr), NULL, <<>>, {})
    ELSE
    LET old_header == ToSizeT(ptr - sizeof_header_s)
        old_size   == LoadHeader(g0.mem, old_header)
        hdr_out    == Outside(g0, Range(old_header, sizeof_header_s))
    IN  IF size <= old_size
        THEN Result(g0, ptr, <<>>, hdr_out)
        ELSE grow(g0, ptr, size, old_size, hdr_out, heap, order)

\* realloc(ptr, size); order is the order in which memcpy moves its bytes.
realloc(g0, ptr, size, heap, order) ==
    IF ptr = NULL THEN malloc(g0, size, heap)
    ELSE IF size = 0 THEN Result(free(g0, ptr), NULL, <<>>, {})
    ELSE
    LET old_header == ToSizeT(ptr - sizeof_header_s)
        old_size   == LoadHeader(g0.mem, old_header)
        hdr_out    == Outside(g0, Range(old_header, sizeof_header_s))
    IN  IF size <= old_size
        THEN Result(g0, ptr, <<>>, hdr_out)
        ELSE grow(g0, ptr, size, old_size, hdr_out, heap, order)

\* ------------------------------------------------------------------ inputs
\* Addresses mmap() may choose for the region (page aligned, and leaving the
\* signed cursor room to be padded past the end of the region).
MmapBases ==
    {a \in Addrs : (a > 0) /\ (a % (2 * DBL_WORD_SIZE) = 0)
                   /\ (a <= 2 * DBL_WORD_SIZE)
                   /\ (a + HEAP_SIZE + (2 * DBL_WORD_SIZE) <= INTPTR_MAX + 1)}

MmapResults == MmapBases \cup {MAP_FAILED}

\* Request sizes: small ones, one that spans two double words, one that
\* fills the region exactly, one that exceeds it, and sizes at which
\* size + sizeof(header_s) or free_addr + total_size wraps around.
SizeArgs ==
    {0, 1, DBL_WORD_SIZE + 1, HEAP_SIZE - DBL_WORD_SIZE, HEAP_SIZE}
    \cup {INTPTR_MAX + 1, SIZE_MAX - (DBL_WORD_SIZE + 7), SIZE_MAX - 7}

\* calloc arguments <<nmemb, size>>, among them a product that wraps around.
CallocArgs ==
    {<<0, 1>>, <<1, 2>>, <<DBL_WORD_SIZE + 1, 1>>,
     <<INTPTR_MAX + 2, 2>>, <<1, SIZE_MAX - 7>>}

\* Pointers the program may pass to free and realloc: NULL or any pointer it
\* was given.
PtrArgs == {NULL} \cup {returned[i].ptr : i \in 1 .. Len(returned)}

\* Byte values the program stores.
StoreVals == {165}

\* The orders in which a memcpy given overlapping ranges may move its
\* bytes, besides reading them all first.
OverlapOrders == {"up", "down"}

\* ------------------------------------------------------------------- steps
NoCall == [n |-> 0, op |-> "none", ptr |-> NULL, nmemb |-> 0, size |-> 0,
           ret |-> NULL, done |-> FALSE]

\* The record of the call that is being made.
Call(op, ptr, nmemb, size) ==
    [n |-> last.n + 1, op |-> op, ptr |-> ptr, nmemb |-> nmemb,
     size |-> size, ret |-> NULL, done |-> FALSE]

\* The threads that call malloc() at the same time.
Threads == {1, 2}

\* A thread that has not called malloc().
IdleThread ==
    [pc |-> "idle", size |-> 0, padding |-> 0, tmp |-> 0, header_ptr |-> 0,
     block_ptr |-> 0, new_free_addr |-> 0, ret |-> NULL, conc |-> FALSE]

Init ==
    /\ threads = [t \in Threads |-> IdleThread]
    /\ start_addr = 0
    /\ end_addr = 0
    /\ free_addr = 0
    /\ mem = [a \in {} |-> 0]
    /\ alive = TRUE
    /\ returned = <<>>
    /\ last = NoCall
    /\ nsteps = 0

\* The call returns r.ret to the program.
Returns(r, call) ==
    /\ start_addr' = r.g.start_addr
    /\ end_addr' = r.g.end_addr
    /\ free_addr' = r.g.free_addr
    /\ mem' = r.g.mem
    /\ returned' = returned \o r.blk
    /\ last' = [call EXCEPT !.ret = r.ret, !.done = TRUE]
    /\ UNCHANGED alive

\* The process ends inside the call: exit(1) from ERROR(), or SIGSEGV on an
\* access outside the region.  The globals keep what the call had assigned.
Dies(r, call) ==
    /\ alive' = FALSE
    /\ start_addr' = r.g.start_addr
    /\ end_addr' = r.g.end_addr
    /\ free_addr' = r.g.free_addr
    /\ last' = call
    /\ UNCHANGED <<mem, returned>>

\* How a call ends.  An access to the upper half of the address space always
\* faults; one outside the region in the user half faults or hits another
\* mapping.
Outcome(r, call) ==
    IF r.exit \/ (\E a \in r.out : a > INTPTR_MAX) THEN Dies(r, call)
    ELSE IF r.out # {} THEN Dies(r, call) \/ Returns(r, call)
    ELSE Returns(r, call)

Stepping ==
    /\ alive
    /\ nsteps < MaxSteps
    /\ nsteps' = nsteps + 1
    /\ UNCHANGED threads

HeapChoices == IF start_addr = 0 THEN MmapResults ELSE {start_addr}

MallocCall ==
    /\ Stepping
    /\ \E size \in SizeArgs, heap \in HeapChoices :
          Outcome(malloc(Globals, size, heap),
                  Call("malloc", NULL, 0, size))

FreeCall ==
    /\ Stepping
    /\ \E ptr \in PtrArgs :
          Outcome(Result(free(Globals, ptr), NULL, <<>>, {}),
                  Call("free", ptr, 0, 0))

CallocCall ==
    /\ Stepping
    /\ \E args \in CallocArgs, heap \in HeapChoices :
          Outcome(calloc(Globals, args[1], args[2], heap),
                  Call("calloc", NULL, args[1], args[2]))

ReallocCall ==
    /\ Stepping
    /\ \E ptr \in PtrArgs, size \in SizeArgs, heap \in HeapChoices :
          LET call == Call("realloc", ptr, 0, size)
              r    == realloc(Globals, ptr, size, heap, "snap")
          IN  \/ Outcome(r, call)
              \/ /\ r.overlap
                 /\ \E order \in OverlapOrders :
                       Outcome(realloc(Globals, ptr, size, heap, order), call)

\* The program stores a byte into the first or the last byte of a block it
\* was given.
Store ==
    /\ Stepping
    /\ \E i \in 1 .. Len(returned), v \in StoreVals :
          \E off \in {0, returned[i].size - 1} :
             LET a == ToSizeT(returned[i].ptr + off)
             IN  /\ InRegion(Globals, a)
                 /\ Peek(mem, a) # v
                 /\ mem' = Poke(mem, a, v)
    /\ UNCHANGED <<start_addr, end_addr, free_addr, alive, returned, last>>

Next == MallocCall \/ FreeCall \/ CallocCall \/ ReallocCall \/ Store

Spec == Init /\ [][Next]_vars

\* ------------------------------------------- two threads inside malloc()
\* The statements of malloc() taken one at a time by two threads, the loads
\* and stores of free_addr interleaving freely: nothing in the source orders
\* them.  The threads start once the region is reserved, so that init()
\* finds start_addr set and does nothing.

\* Sizes the threads ask for.
ConcSizes == {0, 1, DBL_WORD_SIZE + 1, HEAP_SIZE, SIZE_MAX - 7}

\* The process after a first malloc(0) of the main thread has reserved the
\* region.
InitConc ==
    /\ threads = [t \in Threads |-> IdleThread]
    /\ alive = TRUE
    /\ returned = <<>>
    /\ last = NoCall
    /\ nsteps = 0
    /\ \E heap \in MmapBases :
          LET r == malloc([start_addr |-> 0, end_addr |-> 0, free_addr |-> 0,
                           mem |-> [a \in {} |-> 0]], 0, heap)
          IN  /\ start_addr = r.g.start_addr
              /\ end_addr = r.g.end_addr
              /\ free_addr = r.g.free_addr
              /\ mem = r.g.mem

Other(t) == CHOOSE u \in Threads : u # t

InCall(t) == threads[t].pc \notin {"idle", "done"}

At(t, pc) == threads[t].pc = pc

\* Thread t enters malloc(size); init() sees start_addr set.  conc records
\* that the other thread was inside malloc() at that moment.
T_call(t) ==
    /\ At(t, "idle")
    /\ start_addr # 0
    /\ \E size \in ConcSizes :
          threads' =
             [u \in Threads |->
                IF u = t
                THEN [threads[t] EXCEPT !.pc = "padding", !.size = size,
                                        !.conc = InCall(Other(t))]
                ELSE [threads[u] EXCEPT !.conc = @ \/ InCall(u)]]
    /\ UNCHANGED <<start_addr, end_addr, free_addr, mem, alive, returned,
                   last, nsteps>>

\* size_t padding = ... - (free_addr % DBL_WORD_SIZE)
T_padding(t) ==
    /\ At(t, "padding")
    /\ threads' = [threads EXCEPT ![t].pc = "bump_load",
                                  ![t].padding = padding(free_addr)]
    /\ UNCHANGED <<start_addr, end_addr, free_addr, mem, alive, returned,
                   last, nsteps>>

\* free_addr += padding: the load
T_bump_load(t) ==
    /\ At(t, "bump_load")
    /\ threads' = [threads EXCEPT ![t].pc = "bump_store",
                                  ![t].tmp = free_addr]
    /\ UNCHANGED <<start_addr, end_addr, free_addr, mem, alive, returned,
                   last, nsteps>>

\* free_addr += padding: the store; then if (size == 0) return NULL
T_bump_store(t) ==
    /\ At(t, "bump_store")
    /\ free_addr' = ToIntPtr(ToSizeT(threads[t].tmp + threads[t].padding))
    /\ threads' = [threads EXCEPT
                      ![t].pc = IF threads[t].size = 0 THEN "done"
                                ELSE "header_ptr"]
    /\ UNCHANGED <<start_addr, end_addr, mem, alive, returned, last, nsteps>>

\* header_s* header_ptr = (header_s*)free_addr
T_header_ptr(t) ==
    /\ At(t, "header_ptr")
    /\ threads' = [threads EXCEPT ![t].pc = "block_ptr",
                                  ![t].header_ptr = ToSizeT(free_addr)]
    /\ UNCHANGED <<start_addr, end_addr, free_addr, mem, alive, returned,
                   last, nsteps>>

\* void* block_ptr = (void*)(free_addr + sizeof(header_s))
T_block_ptr(t) ==
    /\ At(t, "block_ptr")
    /\ threads' = [threads EXCEPT
                      ![t].pc = "new_free_addr",
                      ![t].block_ptr = ToSizeT(free_addr + sizeof_header_s)]
    /\ UNCHANGED <<start_addr, end_addr, free_addr, mem, alive, returned,
                   last, nsteps>>

\* intptr_t new_free_addr = free_addr + total_size; then
\* if (new_free_addr > end_addr) return NULL
T_new_free_addr(t) ==
    /\ At(t, "new_free_addr")
    /\ LET nfa == new_free_addr(free_addr, threads[t].size)
       IN  threads' = [threads EXCEPT
                          ![t].new_free_addr = nfa,
                          ![t].pc = IF exceeded(Globals, nfa) THEN "done"
                                    ELSE "commit"]
    /\ UNCHANGED <<start_addr, end_addr, free_addr, mem, alive, returned,
                   last, nsteps>>

\* free_addr = new_free_addr
T_commit(t) ==
    /\ At(t, "commit")
    /\ free_addr' = threads[t].new_free_addr
    /\ threads' = [threads EXCEPT ![t].pc = "store"]
    /\ UNCHANGED <<start_addr, end_addr, mem, alive, returned, last, nsteps>>

\* header_ptr->size = size; return block_ptr
T_store(t) ==
    /\ At(t, "store")
    /\ Outside(Globals, Range(threads[t].header_ptr, sizeof_header_s)) = {}
    /\ mem' = StoreHeader(mem, threads[t].header_ptr, threads[t].size)
    /\ returned' = Append(returned, [ptr |-> threads[t].block_ptr,
                                     size |-> threads[t].size])
    /\ threads' = [threads EXCEPT ![t].pc = "done",
                                  ![t].ret = threads[t].block_ptr]
    /\ UNCHANGED <<start_addr, end_addr, free_addr, alive, last, nsteps>>

NextConc ==
    \E t \in Threads :
        \/ T_call(t)
        \/ T_padding(t)
        \/ T_bump_load(t)
        \/ T_bump_store(t)
        \/ T_header_ptr(t)
        \/ T_block_ptr(t)
        \/ T_new_free_addr(t)
        \/ T_commit(t)
        \/ T_store(t)

SpecConc == InitConc /\ [][NextConc]_vars

TypeOK ==
    /\ start_addr \in Addrs
    /\ end_addr \in Addrs
    /\ free_addr \in (0 - SizeMod) .. SizeMod
    /\ DOMAIN mem \subseteq Addrs
    /\ \A a \in DOMAIN mem : mem[a] \in 1 .. 255
    /\ alive \in BOOLEAN
    /\ \A i \in 1 .. Len(returned) :
          returned[i].ptr \in 0 .. SIZE_MAX /\ returned[i].size \in 1 .. SIZE_MAX
    /\ nsteps \in 0 .. MaxSteps

\* ------------------------------------------------------------ properties
\* The step is the return of a call of op.
Returned(op) ==
    /\ last'.n = last.n + 1
    /\ last'.op = op
    /\ last'.done

\* The cursor a malloc works from once it has padded it: the region's start
\* on the call that reserves the region, the old cursor otherwise.
PaddedCursor ==
    LET c == IF start_addr = 0 THEN start_addr' ELSE free_addr
    IN  c + padding(c)

\* The payload ranges [ptr, ptr + size) of two blocks share no byte.
Disjoint(b1, b2) ==
    (b1.ptr + b1.size <= b2.ptr) \/ (b2.ptr + b2.size <= b1.ptr)

\* C1: every pointer malloc has handed out (directly, through calloc or
\* through a growing realloc) is a multiple of DBL_WORD_SIZE.
C1_Aligned ==
    \A i \in 1 .. Len(returned) : returned[i].ptr % DBL_WORD_SIZE = 0

\* Two blocks have been handed out, the second from a cursor that had to be
\* padded (the first block's size is not a multiple of the alignment).
C1_Witness ==
    /\ Len(returned) >= 2
    /\ returned[1].size % DBL_WORD_SIZE # 0
    /\ returned[2].ptr > returned[1].ptr + returned[1].size

\* C2: no two payload ranges of blocks ever handed out overlap.
C2_NoOverlap ==
    \A i, j \in 1 .. Len(returned) :
        (i < j) => Disjoint(returned[i], returned[j])

\* C3: once the region is reserved, no step decreases the cursor.
C3_CursorMonotone ==
    [][(start_addr # 0) => (free_addr' >= free_addr)]_vars

\* C4: once the region is reserved, start <= cursor <= end.
C4_CursorInRegion ==
    (start_addr # 0) => ((start_addr <= free_addr) /\ (free_addr <= end_addr))

\* C5: a malloc whose request does not fit (padded cursor + header size +
\* size > end) returns null, leaves the cursor where the padding put it and
\* changes no byte of memory.
C5_Exhaustion ==
    [][(Returned("malloc")
        /\ (PaddedCursor + sizeof_header_s + last'.size > end_addr'))
       => (/\ last'.ret = NULL
           /\ free_addr' = PaddedCursor
           /\ mem' = mem)]_vars

\* The previous call was a malloc that returned, and the step is the return
\* of a realloc of what it returned; between the two the program has at most
\* stored into its blocks.
ReallocAfterMalloc ==
    /\ last.op = "malloc"
    /\ last.done
    /\ Returned("realloc")
    /\ last'.ptr = last.ret

\* The n bytes at address a in memory m1 equal the n bytes at b in m2.
SameBytes(m1, a, m2, b, n) ==
    \A i \in 0 .. (n - 1) :
        Peek(m1, ToSizeT(a + i)) = Peek(m2, ToSizeT(b + i))

\* C6, as stated: for new <= old, realloc(malloc(old), new) returns what
\* malloc(old) returned.
C6_ShrinkIdentityAll ==
    [][(ReallocAfterMalloc /\ (last'.size <= last.size))
       => (last'.ret = last.ret)]_vars

\* C6, amended: for 0 < new <= old and malloc(old) not null,
\* realloc(malloc(old), new) returns what malloc(old) returned.
C6_ShrinkIdentity ==
    [][(/\ ReallocAfterMalloc
        /\ last.ret # NULL
        /\ 0 < last'.size
        /\ last'.size <= last.size)
       => (last'.ret = last.ret)]_vars

\* The second call is a realloc of the block the first call obtained, to a
\* smaller size that is not zero, and it returned that block.
C6_Witness ==
    /\ last.n = 2
    /\ last.op = "realloc"
    /\ last.done
    /\ Len(returned) = 1
    /\ last.ptr = returned[1].ptr
    /\ 0 < last.size
    /\ last.size < returned[1].size
    /\ last.ret = last.ptr

\* C7: for new > old, when realloc(malloc(old), new) returns a block it is
\* at another address, its first old bytes are the bytes the old block held
\* just before the call, and the rest of it is as it was (exactly the old
\* size is copied).
C7_Growth ==
    [][(/\ ReallocAfterMalloc
        /\ last.ret # NULL
        /\ last'.size > last.size
        /\ last'.ret # NULL)
       => (/\ last'.ret # last.ret
           /\ SameBytes(mem', last'.ret, mem, last.ret, last.size)
           /\ SameBytes(mem', last'.ret + last.size,
                        mem, last'.ret + last.size,
                        last'.size - last.size))]_vars

\* A realloc has moved a block whose first byte the program had set.
C7_Witness ==
    /\ last.op = "realloc"
    /\ last.done
    /\ last.ptr # NULL
    /\ last.ret # NULL
    /\ last.ret # last.ptr
    /\ Len(returned) = 2
    /\ returned[1].ptr = last.ptr
    /\ returned[1].size < last.size
    /\ returned[2].ptr = last.ret
    /\ Peek(mem, last.ptr) # 0
    /\ Peek(mem, last.ret) = Peek(mem, last.ptr)

\* C8: when realloc is asked for more than the stored size of the block and
\* the allocation inside it fails, it returns null, no byte of memory (hence
\* no header and no payload) changes and no block is handed out.
C8_FailedGrowth ==
    [][(/\ Returned("realloc")
        /\ last'.ptr # NULL
        /\ last'.size >
              LoadHeader(mem, ToSizeT(last'.ptr - sizeof_header_s))
        /\ malloc(Globals, last'.size, start_addr).ret = NULL)
       => (/\ last'.ret = NULL
           /\ mem' = mem
           /\ returned' = returned)]_vars

\* A realloc to a larger size of a block handed out earlier returned null.
C8_Witness ==
    /\ last.op = "realloc"
    /\ last.done
    /\ last.ret = NULL
    /\ \E i \in 1 .. Len(returned) :
          /\ returned[i].ptr = last.ptr
          /\ returned[i].size < last.size
          /\ LoadHeader(mem, ToSizeT(last.ptr - sizeof_header_s))
                = returned[i].size

\* C9: malloc(0) returns null, hands out no block and changes no byte;
\* realloc(ptr, 0) returns null for every ptr.
C9_ZeroSize ==
    [][/\ (Returned("malloc") /\ last'.size = 0)
          => (last'.ret = NULL /\ returned' = returned /\ mem' = mem)
       /\ (Returned("realloc") /\ last'.size = 0)
          => (last'.ret = NULL /\ returned' = returned)]_vars

\* malloc(0) has returned null after a block had been handed out.
C9_Witness ==
    /\ last.op = "malloc"
    /\ last.size = 0
    /\ last.done
    /\ last.ret = NULL
    /\ Len(returned) >= 1

\* C10: realloc(NULL, n) returns what malloc(n) returns from the same state
\* and leaves the same cursor, bounds, memory and blocks.
C10_NullIsMalloc ==
    [][(Returned("realloc") /\ last'.ptr = NULL)
       => LET r == malloc(Globals, last'.size, start_addr')
          IN  /\ last'.ret = r.ret
              /\ free_addr' = r.g.free_addr
              /\ start_addr' = r.g.start_addr
              /\ end_addr' = r.g.end_addr
              /\ mem' = r.g.mem
              /\ returned' = returned \o r.blk]_vars

\* realloc(NULL, n) has handed out a block.
C10_Witness ==
    /\ last.op = "realloc"
    /\ last.ptr = NULL
    /\ last.done
    /\ last.ret # NULL
    /\ Len(returned) >= 1
    /\ returned[Len(returned)].ptr = last.ret
    /\ returned[Len(returned)].size = last.size

\* The step is a call (returning or not).
Called == last'.n = last.n + 1

\* The size malloc is asked for in the call of the step.
ReqSize ==
    IF last'.op = "calloc" THEN ToSizeT(last'.nmemb * last'.size)
    ELSE last'.size

\* The stored payload_size of the block at p.
StoredSize(m, p) == LoadHeader(m, ToSizeT(p - sizeof_header_s))

\* C11: free(ptr) changes nothing (bounds, cursor, every byte of memory, the
\* blocks handed out), and the range of a block that has just been freed is
\* not handed out by the next call.
C11_FreeInert ==
    [][/\ Returned("free")
          => UNCHANGED <<start_addr, end_addr, free_addr, mem, returned,
                         alive>>
       /\ (last.op = "free" /\ last.done /\ Called)
          => \A i \in 1 .. Len(returned), j \in 1 .. Len(returned') :
                (returned[i].ptr = last.ptr /\ j > Len(returned))
                => Disjoint(returned[i], returned'[j])]_vars

\* C12: calloc(count, size) returns what malloc(count * size) returns, the
\* product taken in size_t; a block it returns reads as zero over its whole
\* payload, and when it returns null no byte has changed.
C12_Calloc ==
    [][Returned("calloc")
       => LET total == ToSizeT(last'.nmemb * last'.size)
              r     == malloc(Globals, total, start_addr')
          IN  /\ last'.ret = r.ret
              /\ (last'.ret # NULL)
                 => \A i \in 0 .. (total - 1) :
                       Peek(mem', ToSizeT(last'.ret + i)) = 0
              /\ (last'.ret = NULL) => (mem' = mem)]_vars

\* calloc has returned a block whose size is a product that wrapped around.
C12_Witness ==
    /\ last.op = "calloc"
    /\ last.done
    /\ last.ret # NULL
    /\ last.nmemb * last.size > SIZE_MAX
    /\ returned[Len(returned)].ptr = last.ret
    /\ returned[Len(returned)].size = ToSizeT(last.nmemb * last.size)
    /\ Peek(mem, last.ret) = 0

\* C13: whichever entry point is called first, when that call returns the
\* region is reserved: start is set, end = start + HEAP_SIZE and the cursor
\* lies within the region.
C13_FirstCallReserves ==
    [][(last.n = 0 /\ Called /\ last'.done)
       => (/\ start_addr' # 0
           /\ end_addr' = start_addr' + HEAP_SIZE
           /\ start_addr' <= free_addr'
           /\ free_addr' <= end_addr')]_vars

\* C14: the call that reserves the region sets end = start + HEAP_SIZE and
\* works from cursor = start; once the region is reserved no call changes
\* start or end, and every call works from the cursor it found (the cursor
\* is left alone, padded, or padded and bumped by the request), never again
\* from start.
C14_InitOnce ==
    [][Called
       => (/\ (start_addr # 0)
              => (start_addr' = start_addr /\ end_addr' = end_addr)
           /\ (start_addr = 0 /\ start_addr' # 0)
              => (end_addr' = start_addr' + HEAP_SIZE)
           /\ free_addr' \in {free_addr, PaddedCursor,
                              new_free_addr(PaddedCursor, ReqSize)})]_vars

\* A later malloc has handed out a block from a cursor well past start.
C14_Witness ==
    /\ last.n >= 2
    /\ last.op = "malloc"
    /\ last.done
    /\ last.ret # NULL
    /\ end_addr = start_addr + HEAP_SIZE
    /\ last.ret >= start_addr + (2 * DBL_WORD_SIZE)
    /\ free_addr = last.ret + last.size

\* C15: on a successful malloc(size), with c the padded cursor, the pointer
\* returned is c + sizeof(header_s), the header at c holds size, and the
\* cursor becomes c + sizeof(header_s) + size.
C15_Commit ==
    [][(Returned("malloc") /\ last'.ret # NULL)
       => (/\ last'.ret = PaddedCursor + sizeof_header_s
           /\ StoredSize(mem', last'.ret) = last'.size
           /\ free_addr' = PaddedCursor + sizeof_header_s + last'.size)]_vars

\* C16: the header of every block ever handed out holds the size the block
\* was requested with.
C16_HeaderKept ==
    \A i \in 1 .. Len(returned) :
        StoredSize(mem, returned[i].ptr) = returned[i].size

\* C17, as stated: a malloc that returns null changes neither start nor end
\* nor any byte, and advances the cursor by the padding: less than
\* DBL_WORD_SIZE bytes, up to where cursor + sizeof(header_s) is aligned.
C17_NullMallocAll ==
    [][(Returned("malloc") /\ last'.ret = NULL)
       => (/\ UNCHANGED <<start_addr, end_addr, mem, returned>>
           /\ free_addr' >= free_addr
           /\ free_addr' - free_addr < DBL_WORD_SIZE
           /\ (free_addr' + sizeof_header_s) % DBL_WORD_SIZE = 0)]_vars

\* C17, amended: the same of a malloc made once the region is reserved.
C17_NullMalloc ==
    [][(Returned("malloc") /\ last'.ret = NULL /\ start_addr # 0)
       => (/\ UNCHANGED <<start_addr, end_addr, mem, returned>>
           /\ free_addr' >= free_addr
           /\ free_addr' - free_addr < DBL_WORD_SIZE
           /\ (free_addr' + sizeof_header_s) % DBL_WORD_SIZE = 0)]_vars

\* A malloc of a size that is not zero has returned null on a reserved
\* region that holds a block, leaving the cursor padded.
C17_Witness ==
    /\ last.n >= 2
    /\ last.op = "malloc"
    /\ last.done
    /\ last.ret = NULL
    /\ last.size > 0
    /\ Len(returned) >= 1
    /\ StoredSize(mem, returned[1].ptr) = returned[1].size
    /\ (free_addr + sizeof_header_s) % DBL_WORD_SIZE = 0

\* C18: realloc(ptr, n) with ptr not null and 0 < n <= stored size returns
\* ptr and changes nothing: bounds, cursor, every byte (so the header keeps
\* its size), the blocks handed out.
C18_KeepInPlace ==
    [][(/\ Returned("realloc")
        /\ last'.ptr # NULL
        /\ 0 < last'.size
        /\ last'.size <= StoredSize(mem, last'.ptr))
       => (/\ last'.ret = last'.ptr
           /\ UNCHANGED <<start_addr, end_addr, free_addr, mem,
                          returned>>)]_vars

\* A realloc to a smaller size has returned the block, whose header still
\* holds the larger size.
C18_Witness ==
    /\ last.op = "realloc"
    /\ last.done
    /\ last.ptr # NULL
    /\ last.ret = last.ptr
    /\ 0 < last.size
    /\ last.size < StoredSize(mem, last.ptr)
    /\ \E i \in 1 .. Len(returned) :
          /\ returned[i].ptr = last.ptr
          /\ returned[i].size = StoredSize(mem, last.ptr)

\* C20: every block handed out lies inside the region: its header starts at
\* or after start and its payload ends at or before end.
C20_BlocksInRegion ==
    \A i \in 1 .. Len(returned) :
        /\ returned[i].ptr - sizeof_header_s >= start_addr
        /\ returned[i].ptr + returned[i].size <= end_addr

\* The block thread t was given.
BlockOf(t) == [ptr |-> threads[t].ret, size |-> threads[t].size]

\* Both threads are back from malloc() with a block, and the blocks overlap
\* or the header of one no longer holds its size.
Clash ==
    /\ \A t \in Threads : At(t, "done") /\ threads[t].ret # NULL
    /\ \/ ~Disjoint(BlockOf(1), BlockOf(2))
       \/ \E t \in Threads : StoredSize(mem, threads[t].ret) # threads[t].size

\* C19, the calls that run one after another: two malloc() calls of which
\* neither began while the other was running do not return overlapping
\* blocks, and neither overwrites the header the other wrote.
C19_SequentialSafe ==
    (\A t \in Threads : ~threads[t].conc) => ~Clash

\* C19, the calls that run at the same time: two malloc() calls of sizes far
\* below the heap's, one begun while the other was running, have returned
\* overlapping blocks or one has overwritten the other's header.
C19_RaceReached ==
    /\ Clash
    /\ \E t \in Threads : threads[t].conc
    /\ \A t \in Threads : threads[t].size <= DBL_WORD_SIZE + 1

\* A thread's header store always lands inside the region.
HeaderStoreInRegion ==
    \A t \in Threads :
        At(t, "store")
        => Outside(Globals, Range(threads[t].header_ptr, sizeof_header_s)) = {}

\* C21: once malloc(s) with s > 0 has returned null, a malloc(s') with
\* s' >= s returns null as well (here: the very next call).
C21_ExhaustionPermanent ==
    [][(/\ last.op = "malloc"
        /\ last.done
        /\ last.ret = NULL
        /\ last.size > 0
        /\ Returned("malloc")
        /\ last'.size >= last.size)
       => (last'.ret = NULL)]_vars

\* The same of requests whose end, cursor + header + size, fits intptr_t.
C21_ExhaustionPermanentSmall ==
    [][(/\ last.op = "malloc"
        /\ last.done
        /\ last.ret = NULL
        /\ last.size > 0
        /\ Returned("malloc")
        /\ last'.size >= last.size
        /\ PaddedCursor + sizeof_header_s + last'.size <= INTPTR_MAX)
       => (last'.ret = NULL)]_vars

==========================================================================
